---------------------------- MODULE Spec2Model ----------------------------
(***************************************************************************)
(* Model of the million-songs ETL pipeline (src/src/etl.py, class          *)
(* Pipeline) and of its command line entry point (src/src/main.py).        *)
(*                                                                         *)
(* A nullable SQL / Python value is a sequence of length at most one:      *)
(* <<>> is NULL / None and <<v>> is the value v.  A table is the sequence  *)
(* of its rows in insertion order; a surrogate id is the row's serial      *)
(* number.                                                                 *)
(***************************************************************************)
EXTENDS Integers, Sequences, FiniteSets

(* Longest list of data files the record source lists. *)
MaxRecords == 2

Null == <<>>

Some(v) == <<v>>

(* ------------------------------------------------------------------ *)
(* Inputs: the raw records held by the files under data/.             *)
(* ------------------------------------------------------------------ *)

(* Raw (artist_name, release) of a record; "" is a blank byte string. *)
Credits ==
    { <<"", "X">>, <<"Bea", "">>, <<"Bea", "X">>, <<"Cal", "X">> }

(* Raw (artist_location, artist_latitude, artist_longitude); 0 is the
   value the dataset stores for a missing number. *)
Places ==
    { <<"", 0, 0>>, <<"NYC", 40, 74>>, <<"NYC", 41, 74>>, <<"LA", 0, 75>> }

RawRecord(c, p) ==
    [ artist_name       |-> c[1],
      release           |-> c[2],
      artist_location   |-> p[1],
      artist_latitude   |-> p[2],
      artist_longitude  |-> p[3],
      title             |-> "T",
      year              |-> 1999,
      danceability      |-> 0,
      duration          |-> 200,
      end_of_fade_in    |-> 0,
      start_of_fade_out |-> 190,
      loudness          |-> 0 - 7,
      tempo             |-> 120 ]

Records == { RawRecord(c, p) : c \in Credits, p \in Places }

FileLists == UNION { [1..n -> Records] : n \in 0..MaxRecords }

(* ------------------------------------------------------------------ *)
(* Helpers                                                            *)
(* ------------------------------------------------------------------ *)

(* utils.encode_str: blank text is null, anything else is its text. *)
encode_str(raw) == IF raw = "" THEN Null ELSE Some(raw)

(* utils.cast_numeric: the missing-value sentinel is null. *)
cast_numeric(raw) == IF raw = 0 THEN Null ELSE Some(raw)

(* SQL "=" in a WHERE clause: true only of two equal non-null values. *)
SqlEq(a, b) == a # Null /\ b # Null /\ a = b

(* SQLAlchemy's  column == value : a Python None makes it IS NULL. *)
ColEq(col, val) == IF val = Null THEN col = Null ELSE SqlEq(col, val)

Range(s) == { s[i] : i \in DOMAIN s }

(* The orders in which a query without ORDER BY may return the set S. *)
Orderings(S) ==
    { f \in [1..Cardinality(S) -> S] : \A i, j \in DOMAIN f : f[i] = f[j] => i = j }

(* The registry's keys (and the tables' names), spelled out so that the
   substring test of drop_init_tables can be computed. *)
TableChars ==
    [ artists_init      |-> <<"a","r","t","i","s","t","s","_","i","n","i","t">>,
      songs_init        |-> <<"s","o","n","g","s","_","i","n","i","t">>,
      artists           |-> <<"a","r","t","i","s","t","s">>,
      locations         |-> <<"l","o","c","a","t","i","o","n","s">>,
      artists_locations |-> <<"a","r","t","i","s","t","s","_","l","o","c","a","t","i","o","n","s">>,
      albums            |-> <<"a","l","b","u","m","s">>,
      songs             |-> <<"s","o","n","g","s">> ]

TableNames == DOMAIN TableChars

(* Python's  sub in s  on strings. *)
Contains(s, sub) ==
    \E i \in 1..(Len(s) - Len(sub) + 1) : SubSeq(s, i, i + Len(sub) - 1) = sub

(* IsInitTable, had the test been for the staging tables' other word. *)
IsInitTableArtists(tbl_name) ==
    Contains(TableChars[tbl_name], <<"a","r","t","i","s","t","s">>)

IsInitTable(tbl_name) == Contains(TableChars[tbl_name], <<"i","n","i","t">>)

VARIABLES
    entry,              \* what was started: "main" (main.py) or "run" (Pipeline.run)
    pc,                 \* the next statement
    raised,             \* the exception that left the program, or Null
    containers,         \* names of the running containers (docker.ps)
    engine,             \* "none", "live" or "disposed"
    existing,           \* the tables that exist in the store
    file_paths,         \* run_initial_pipeline: the records of the listed files
    file_idx,           \* run_initial_pipeline: files completely staged
    artists_init, songs_init,
    artists, locations, artists_locations, albums, songs,
    todo,               \* the rows a loop still has to visit
    res,                \* run_artist_location_pipeline: rows left in the Result `res`
    log                 \* the messages logged so far

tables == <<artists_init, songs_init, artists, locations, artists_locations, albums, songs>>

final == <<artists, locations, artists_locations, albums, songs>>

vars == <<entry, pc, raised, containers, engine, existing, file_paths, file_idx,
          artists_init, songs_init, artists, locations, artists_locations,
          albums, songs, todo, res, log>>

EmptyStore ==
    /\ artists_init = <<>> /\ songs_init = <<>>
    /\ artists = <<>> /\ locations = <<>> /\ artists_locations = <<>>
    /\ albums = <<>> /\ songs = <<>>

(* Either main.py is started as a script, or a caller that has made the
   engine and the schema calls Pipeline(engine, tables).run(). *)
Init ==
    /\ EmptyStore
    /\ raised = Null /\ file_paths = <<>> /\ file_idx = 0
    /\ todo = {} /\ res = {} /\ log = <<>>
    /\ \/ /\ entry = "main" /\ pc = "import"
          /\ containers \in { {}, {"sparkify"} }
          /\ engine = "none"
          /\ existing \in { {}, TableNames }
       \/ /\ entry = "run" /\ pc = "initial"
          /\ containers = {"sparkify"}
          /\ engine = "live"
          /\ existing = TableNames

(* ------------------------------------------------------------------ *)
(* Failure: a statement raises and nothing catches it.                *)
(* ------------------------------------------------------------------ *)

(* What a pass logs before its first statement. *)
StartLog(at) ==
    CASE at = "initial"         -> <<"Starting initial pipeline...">>
      [] at = "location"        -> <<"Starting pipeline to clean locations table...">>
      [] at = "artist_location" ->
            <<"Starting pipeline for many-to-many mapping of artists and locations.">>
      [] at = "album"           -> <<"Starting pipeline to clean albums table...">>
      [] OTHER                  -> <<>>

(* Raise, had _commit's failure undone the run: the final tables emptied. *)
RaiseRollingBack(at) ==
    /\ pc' = "failed"
    /\ raised' = Some(at)
    /\ log' = log \o StartLog(at)
    /\ artists' = <<>> /\ locations' = <<>> /\ artists_locations' = <<>>
    /\ albums' = <<>> /\ songs' = <<>>
    /\ UNCHANGED <<entry, containers, engine, existing, file_paths, file_idx,
                   artists_init, songs_init, todo, res>>

(* The statement at pc raises (an unreadable file, a lost connection, a
   violated constraint).  _commit's connection closes without a commit, so
   the statement leaves nothing in the store; Pipeline.run has no handler,
   so the exception leaves run() from there. *)
Raise(at) ==
    /\ pc' = "failed"
    /\ raised' = Some(at)
    /\ log' = log \o StartLog(at)
    /\ UNCHANGED <<entry, containers, engine, existing, file_paths, file_idx,
                   tables, todo, res>>

LoopPcs == { "location_loop", "artist_location_loop", "drop_loop" }

StatementPcs ==
    { "initial", "insert_artist", "insert_song", "artist", "location",
      "artist_location", "album", "song" } \cup LoopPcs

Fail ==
    /\ pc \in StatementPcs
    /\ pc \in LoopPcs => todo # {}
    /\ Raise(pc)

(* ------------------------------------------------------------------ *)
(* main.py                                                            *)
(* ------------------------------------------------------------------ *)

(* The names module etl defines at its top level. *)
EtlNames == { "Pipeline" }

(* from etl import run_initial_pipeline *)
MainImport ==
    /\ pc = "import"
    /\ IF "run_initial_pipeline" \in EtlNames
       THEN /\ pc' = "check_container"
            /\ UNCHANGED raised
       ELSE /\ pc' = "failed"
            /\ raised' = Some("ImportError")
    /\ UNCHANGED <<entry, containers, engine, existing, file_paths, file_idx,
                   tables, todo, res, log>>

(* ------------------------------------------------------------------ *)
(* Pipeline.run_initial_pipeline                                      *)
(* ------------------------------------------------------------------ *)

ArtistInitRow(song_df) ==
    [ name      |-> encode_str(song_df.artist_name),
      location  |-> encode_str(song_df.artist_location),
      latitude  |-> cast_numeric(song_df.artist_latitude),
      longitude |-> cast_numeric(song_df.artist_longitude) ]

SongInitRow(song_df) ==
    [ title             |-> encode_str(song_df.title),
      year              |-> cast_numeric(song_df.year),
      danceability      |-> cast_numeric(song_df.danceability),
      duration          |-> cast_numeric(song_df.duration),
      end_of_fade_in    |-> cast_numeric(song_df.end_of_fade_in),
      start_of_fade_out |-> cast_numeric(song_df.start_of_fade_out),
      loudness          |-> cast_numeric(song_df.loudness),
      bpm               |-> cast_numeric(song_df.tempo),
      album_name        |-> encode_str(song_df.release),
      artist_name       |-> encode_str(song_df.artist_name) ]

(* The loop's next position: the next file, or the end of the pass. *)
NextFile(done, paths) == IF done = Len(paths) THEN "initial_end" ELSE "insert_artist"

(* get_file_paths: the files found under data/. *)
RunInitialBegin ==
    /\ pc = "initial"
    /\ \E paths \in FileLists :
          /\ file_paths' = paths
          /\ pc' = NextFile(0, paths)
    /\ file_idx' = 0
    /\ log' = log \o StartLog("initial")
    /\ UNCHANGED <<entry, raised, containers, engine, existing, tables, todo, res>>

(* read_h5 of the next file, then the committed insert into artists_init. *)
InsertArtistInit ==
    /\ pc = "insert_artist"
    /\ artists_init' = Append(artists_init, ArtistInitRow(file_paths[file_idx + 1]))
    /\ pc' = "insert_song"
    /\ UNCHANGED <<entry, raised, containers, engine, existing, file_paths, file_idx,
                   songs_init, final, todo, res, log>>

(* InsertSongInit, had the insert been executed without the commit. *)
InsertSongInitUncommitted ==
    /\ pc = "insert_song"
    /\ file_idx' = file_idx + 1
    /\ pc' = NextFile(file_idx + 1, file_paths)
    /\ UNCHANGED <<entry, raised, containers, engine, existing, file_paths,
                   tables, todo, res, log>>

(* The committed insert into songs_init; the loop moves to the next file. *)
InsertSongInit ==
    /\ pc = "insert_song"
    /\ songs_init' = Append(songs_init, SongInitRow(file_paths[file_idx + 1]))
    /\ file_idx' = file_idx + 1
    /\ pc' = NextFile(file_idx + 1, file_paths)
    /\ UNCHANGED <<entry, raised, containers, engine, existing, file_paths,
                   artists_init, final, todo, res, log>>

RunInitialEnd ==
    /\ pc = "initial_end"
    /\ log' = Append(log, "Initial ETL pipeline successfully run!")
    /\ pc' = "artist"
    /\ UNCHANGED <<entry, raised, containers, engine, existing, file_paths, file_idx,
                   tables, todo, res>>

(* ------------------------------------------------------------------ *)
(* Pipeline.run_artist_pipeline (Pass A)                              *)
(* ------------------------------------------------------------------ *)

(* DistinctArtistNames, had the WHERE clause been left out. *)
DistinctArtistNamesWithNull == { r.name : r \in Range(artists_init) }

(* SELECT DISTINCT name FROM artists_init WHERE name IS NOT NULL *)
DistinctArtistNames == { r.name : r \in Range(artists_init) } \ { Null }

RunArtistPipeline ==
    /\ pc = "artist"
    /\ \E ord \in Orderings(DistinctArtistNames) :
          artists' = artists \o
              [ i \in DOMAIN ord |-> [ id |-> Len(artists) + i, name |-> ord[i] ] ]
    /\ log' = Append(log, "Artists table cleaned!")
    /\ pc' = "location"
    /\ UNCHANGED <<entry, raised, containers, engine, existing, file_paths, file_idx,
                   artists_init, songs_init, locations, artists_locations, albums,
                   songs, todo, res>>

(* ------------------------------------------------------------------ *)
(* Pipeline.run_location_pipeline (Pass B)                            *)
(* ------------------------------------------------------------------ *)

(* select(artists_init.c.location.distinct()): None is one of the values. *)
RunLocationBegin ==
    /\ pc = "location"
    /\ todo' = { r.location : r \in Range(artists_init) }
    /\ log' = log \o StartLog("location")
    /\ pc' = "location_loop"
    /\ UNCHANGED <<entry, raised, containers, engine, existing, file_paths, file_idx,
                   tables, res>>

(* get_lng_lat_val, had it kept the first value seen. *)
get_lng_lat_val_first(col, location) ==
    LET rows == { j \in DOMAIN artists_init : ColEq(artists_init[j].location, location) }
    IN  IF rows = {} THEN Null
        ELSE artists_init[CHOOSE i \in rows : \A j \in rows : i <= j][col]

get_lng_lat_val(col, location) ==
    LET val == { artists_init[i][col] :
                   i \in { j \in DOMAIN artists_init :
                             ColEq(artists_init[j].location, location) } }
    IN  IF Cardinality(val) = 1 THEN CHOOSE v \in val : TRUE ELSE Null

(* One iteration of  for location in locations. *)
LocationIter ==
    /\ pc = "location_loop"
    /\ \E location \in todo :
          /\ todo' = todo \ { location }
          /\ IF location = Null
             THEN UNCHANGED locations
             ELSE locations' = Append(locations,
                     [ id        |-> Len(locations) + 1,
                       name      |-> location,
                       latitude  |-> get_lng_lat_val("latitude", location),
                       longitude |-> get_lng_lat_val("longitude", location) ])
    /\ UNCHANGED <<entry, pc, raised, containers, engine, existing, file_paths,
                   file_idx, artists_init, songs_init, artists, artists_locations,
                   albums, songs, res, log>>

RunLocationEnd ==
    /\ pc = "location_loop"
    /\ todo = {}
    /\ log' = Append(log, "Locations table cleaned!")
    /\ pc' = "artist_location"
    /\ UNCHANGED <<entry, raised, containers, engine, existing, file_paths, file_idx,
                   tables, todo, res>>

(* ------------------------------------------------------------------ *)
(* Pipeline.run_artist_location_pipeline (Pass C)                     *)
(* ------------------------------------------------------------------ *)

(* Result.all(): the rows not yet fetched; the result is exhausted after. *)
ResultAll(result) == [ rows |-> result, left |-> {} ]

(* Result.scalar(): the first column of the next row, None when exhausted. *)
ResultScalar(result) ==
    IF result = {} THEN Null ELSE Some((CHOOSE row \in result : TRUE)[1])

(* res = self._execute(artist_stmt); artist_names = res.all() *)
RunArtistLocationBegin ==
    /\ pc = "artist_location"
    /\ LET fetched == ResultAll({ <<a.id, a.name>> : a \in Range(artists) })
       IN  /\ todo' = fetched.rows
           /\ res' = fetched.left
    /\ log' = log \o StartLog("artist_location")
    /\ pc' = "artist_location_loop"
    /\ UNCHANGED <<entry, raised, containers, engine, existing, file_paths, file_idx,
                   tables>>

(* One iteration of  for artist_id, artist_name in artist_names.  The
   results of loc_stmt and loc_id_stmt are dropped: the loop reads `res`,
   the result of artist_stmt, again. *)
ArtistLocationIter ==
    /\ pc = "artist_location_loop"
    /\ \E artist \in todo :
          LET fetched     == ResultAll(res)
              loc         == fetched.rows
              loc_val     == IF Cardinality(loc) = 1
                             THEN Some((CHOOSE row \in loc : TRUE)[1])
                             ELSE Null
              location_id == ResultScalar(fetched.left)
          IN  /\ todo' = todo \ { artist }
              /\ res' = fetched.left
              /\ IF loc_val = Null
                 THEN UNCHANGED artists_locations
                 ELSE artists_locations' = Append(artists_locations,
                         [ artist_id |-> Some(artist[1]), location_id |-> location_id ])
    /\ UNCHANGED <<entry, pc, raised, containers, engine, existing, file_paths,
                   file_idx, artists_init, songs_init, artists, locations, albums,
                   songs, log>>

RunArtistLocationEnd ==
    /\ pc = "artist_location_loop"
    /\ todo = {}
    /\ log' = Append(log, "Mapping table finished!")
    /\ pc' = "album"
    /\ UNCHANGED <<entry, raised, containers, engine, existing, file_paths, file_idx,
                   tables, todo, res>>

(* ------------------------------------------------------------------ *)
(* Pipeline.run_album_pipeline (Pass D)                               *)
(* ------------------------------------------------------------------ *)

(* A scalar subquery: NULL for no row, the value for one row.  More than
   one row is an error of the whole statement (see Ambiguous). *)
Scalar(S) == IF S = {} THEN Null ELSE Some(CHOOSE x \in S : TRUE)

(* ArtistIdsNamed, had the subquery not been correlated with the row. *)
ArtistIdsUncorrelated(name) == { a.id : a \in Range(artists) }

(* SELECT id FROM artists WHERE artists.name = name *)
ArtistIdsNamed(name) == { a.id : a \in { b \in Range(artists) : SqlEq(b.name, name) } }

(* SELECT name FROM artists WHERE artists.id = artist_id *)
ArtistNamesOf(artist_id) ==
    { a.name : a \in { b \in Range(artists) : SqlEq(Some(b.id), artist_id) } }

(* AlbumIdsOf, had the title been matched with IS NOT DISTINCT FROM. *)
AlbumIdsOfNullSafe(s) ==
    { al.id : al \in { b \in Range(albums) :
                         /\ b.title = s.album_name
                         /\ \E name \in ArtistNamesOf(b.artist_id) :
                               SqlEq(name, s.artist_name) } }

(* SELECT id FROM albums WHERE albums.title = s.album_name AND
   (SELECT name FROM artists WHERE artists.id = albums.artist_id) = s.artist_name
   (a Scalar of several names is never read: Ambiguous fails the statement) *)
AlbumIdsOf(s) ==
    { al.id : al \in { b \in Range(albums) :
                         /\ SqlEq(b.title, s.album_name)
                         /\ \E name \in ArtistNamesOf(b.artist_id) :
                               SqlEq(name, s.artist_name) } }

Ambiguous(S) == Cardinality(S) > 1

(* DistinctAlbums, had the rows without an album_name been filtered out. *)
DistinctAlbumsTitled ==
    { <<s.album_name, Scalar(ArtistIdsNamed(s.artist_name))>> :
        s \in { r \in Range(songs_init) : r.album_name # Null } }

(* SELECT DISTINCT album_name, (SELECT id FROM artists ...) FROM songs_init *)
DistinctAlbums ==
    { <<s.album_name, Scalar(ArtistIdsNamed(s.artist_name))>> : s \in Range(songs_init) }

RunAlbumPipeline ==
    /\ pc = "album"
    /\ IF \E s \in Range(songs_init) : Ambiguous(ArtistIdsNamed(s.artist_name))
       THEN Raise("album")
       ELSE /\ \E ord \in Orderings(DistinctAlbums) :
                  albums' = albums \o
                      [ i \in DOMAIN ord |->
                          [ id |-> Len(albums) + i, title |-> ord[i][1],
                            artist_id |-> ord[i][2] ] ]
            /\ log' = log \o StartLog("album") \o <<"Album table cleaned!">>
            /\ pc' = "song"
            /\ UNCHANGED <<entry, raised, containers, engine, existing, file_paths,
                           file_idx, artists_init, songs_init, artists, locations,
                           artists_locations, songs, todo, res>>

(* ------------------------------------------------------------------ *)
(* Pipeline.run_song_pipeline (Pass E)                                *)
(* ------------------------------------------------------------------ *)

(* The row selected for row i of songs_init.  src_row is not a column: it
   records which staging row the song was built from. *)
SongRow(i, id) ==
    LET s == songs_init[i]
    IN  [ id                |-> id,
          title             |-> s.title,
          year              |-> s.year,
          danceability      |-> s.danceability,
          duration          |-> s.duration,
          end_of_fade_in    |-> s.end_of_fade_in,
          start_of_fade_out |-> s.start_of_fade_out,
          loudness          |-> s.loudness,
          bpm               |-> s.bpm,
          album_id          |-> Scalar(AlbumIdsOf(s)),
          artist_id         |-> Scalar(ArtistIdsNamed(s.artist_name)),
          src_row           |-> i ]

SongAmbiguous(s) ==
    \/ Ambiguous(AlbumIdsOf(s))
    \/ Ambiguous(ArtistIdsNamed(s.artist_name))
    \/ \E al \in Range(albums) : Ambiguous(ArtistNamesOf(al.artist_id))

RunSongPipeline ==
    /\ pc = "song"
    /\ IF \E s \in Range(songs_init) : SongAmbiguous(s)
       THEN Raise("song")
       ELSE /\ \E ord \in Orderings(DOMAIN songs_init) :
                  songs' = songs \o
                      [ i \in DOMAIN ord |-> SongRow(ord[i], Len(songs) + i) ]
            /\ log' = Append(log, "Songs table cleaned!")
            /\ pc' = "drop"
            /\ UNCHANGED <<entry, raised, containers, engine, existing, file_paths,
                           file_idx, artists_init, songs_init, artists, locations,
                           artists_locations, albums, todo, res>>

(* ------------------------------------------------------------------ *)
(* Pipeline.drop_init_tables (Teardown)                               *)
(* ------------------------------------------------------------------ *)

(* init_tables = [tbl_name for tbl_name in self.tables.keys() if "init" in tbl_name] *)
DropInitTablesBegin ==
    /\ pc = "drop"
    /\ todo' = { tbl_name \in TableNames : IsInitTable(tbl_name) }
    /\ pc' = "drop_loop"
    /\ UNCHANGED <<entry, raised, containers, engine, existing, file_paths, file_idx,
                   tables, res, log>>

(* The rows of table tbl after DROP TABLE dropped: none for the dropped
   table, untouched for every other. *)
AfterDrop(tbl, dropped, rows) == IF tbl = dropped THEN <<>> ELSE rows

(* One committed DROP TABLE of the loop  for stmt in stmts. *)
DropIter ==
    /\ pc = "drop_loop"
    /\ \E tbl \in todo :
          /\ todo' = todo \ { tbl }
          /\ existing' = existing \ { tbl }
          /\ artists_init' = AfterDrop("artists_init", tbl, artists_init)
          /\ songs_init' = AfterDrop("songs_init", tbl, songs_init)
          /\ artists' = AfterDrop("artists", tbl, artists)
          /\ locations' = AfterDrop("locations", tbl, locations)
          /\ artists_locations' = AfterDrop("artists_locations", tbl, artists_locations)
          /\ albums' = AfterDrop("albums", tbl, albums)
          /\ songs' = AfterDrop("songs", tbl, songs)
    /\ UNCHANGED <<entry, pc, raised, containers, engine, file_paths, file_idx,
                   res, log>>

DropInitTablesEnd ==
    /\ pc = "drop_loop"
    /\ todo = {}
    /\ log' = Append(log, "Initial tables dropped.")
    /\ pc' = "done"
    /\ UNCHANGED <<entry, raised, containers, engine, existing, file_paths, file_idx,
                   tables, todo, res>>

(* ------------------------------------------------------------------ *)
(* The program                                                        *)
(* ------------------------------------------------------------------ *)

Next ==
    \/ MainImport
    \/ RunInitialBegin
    \/ InsertArtistInit
    \/ InsertSongInit
    \/ RunInitialEnd
    \/ RunArtistPipeline
    \/ RunLocationBegin
    \/ LocationIter
    \/ RunLocationEnd
    \/ RunArtistLocationBegin
    \/ ArtistLocationIter
    \/ RunArtistLocationEnd
    \/ RunAlbumPipeline
    \/ RunSongPipeline
    \/ DropInitTablesBegin
    \/ DropIter
    \/ DropInitTablesEnd
    \/ Fail

Spec == Init /\ [][Next]_vars

(* ------------------------------------------------------------------ *)
(* Properties                                                         *)
(* ------------------------------------------------------------------ *)

Logged(msg) == \E i \in DOMAIN log : log[i] = msg

Staged == { "artists_init", "songs_init" } \subseteq existing

(* The staging rows of artist `name` / of place `location`. *)
RowsOfArtist(name) == { i \in DOMAIN artists_init : artists_init[i].name = name }

RowsOfLocation(location) ==
    { i \in DOMAIN artists_init : artists_init[i].location = location }

StagedLocations == { artists_init[i].location : i \in DOMAIN artists_init } \ { Null }

StagedNames == { artists_init[i].name : i \in DOMAIN artists_init } \ { Null }

(* C1: after Pass C, an artist all of whose staging rows carry the one
   location L has exactly one artists_locations row, and it points at the
   locations row named L; an artist with no location or with two or more
   locations has none. *)
C1_ArtistLinkedToSingleLocation ==
    (Logged("Mapping table finished!") /\ Staged) =>
        \A a \in Range(artists) :
            LET locs  == { artists_init[i].location : i \in RowsOfArtist(a.name) }
                links == { i \in DOMAIN artists_locations :
                             artists_locations[i].artist_id = Some(a.id) }
            IN  /\ (Cardinality(locs) = 1 /\ Null \notin locs) =>
                      /\ Cardinality(links) = 1
                      /\ \A i \in links : \E l \in Range(locations) :
                            /\ artists_locations[i].location_id = Some(l.id)
                            /\ l.name \in locs
                /\ (Cardinality(locs \ { Null }) # 1) => links = {}

(* The value every staging row of `location` carries in column col, NULL
   when they do not all carry the same. *)
Agreed(col, location) ==
    LET rows == RowsOfLocation(location)
    IN  IF \A i, j \in rows : artists_init[i][col] = artists_init[j][col]
        THEN artists_init[CHOOSE i \in rows : TRUE][col]
        ELSE Null

(* C2: every locations row carries, per coordinate, the value its staging
   rows agree on and NULL when they disagree, latitude and longitude each
   on its own; after Pass B every staged non-null location has exactly one
   row. *)
C2_LocationCoordinates ==
    Staged =>
        /\ \A l \in Range(locations) :
              /\ l.name \in StagedLocations
              /\ l.latitude = Agreed("latitude", l.name)
              /\ l.longitude = Agreed("longitude", l.name)
        /\ Logged("Locations table cleaned!") =>
              \A L \in StagedLocations :
                  Cardinality({ i \in DOMAIN locations : locations[i].name = L }) = 1

(* Staging rows of one place disagree on latitude and agree on longitude:
   the row has a NULL latitude next to a longitude. *)
C2_Witness ==
    /\ Staged /\ Logged("Locations table cleaned!")
    /\ \E l \in Range(locations) :
          /\ l.latitude = Null /\ l.longitude # Null
          /\ \E i, j \in RowsOfLocation(l.name) :
                /\ artists_init[i].latitude # Null
                /\ artists_init[j].latitude # Null
                /\ artists_init[i].latitude # artists_init[j].latitude

(* C3: after Pass A every distinct non-null staged name has exactly one
   artists row, no artists row has a NULL name and none has a name that was
   not staged. *)
C3_ArtistsDistinctNonNull ==
    (Logged("Artists table cleaned!") /\ Staged) =>
        /\ \A N \in StagedNames :
              Cardinality({ i \in DOMAIN artists : artists[i].name = N }) = 1
        /\ \A a \in Range(artists) : a.name # Null /\ a.name \in StagedNames

(* A name staged on two rows gives one artist. *)
C3_Witness ==
    /\ Logged("Artists table cleaned!") /\ Staged
    /\ Len(artists) = 1
    /\ \E i, j \in DOMAIN artists_init :
          /\ i # j
          /\ artists_init[i].name # Null
          /\ artists_init[i].name = artists_init[j].name

(* The songs_init row a song was built from. *)
SourceOf(song) == songs_init[song.src_row]

(* C4 as stated: after Pass E every song's artist_id is the id of an artist
   named as the song's staging row, whatever that name. *)
C4_EverySongHasItsArtist ==
    (Logged("Songs table cleaned!") /\ Staged) =>
        \A song \in Range(songs) : \E a \in Range(artists) :
            /\ song.artist_id = Some(a.id)
            /\ a.name = SourceOf(song).artist_name

(* C4, amended: after Pass E a song whose staging row has an artist_name
   has the id of the artist of that name, and a song whose staging row has
   no artist_name has a NULL artist_id. *)
C4_SongArtistUnlessNameless ==
    (Logged("Songs table cleaned!") /\ Staged) =>
        \A song \in Range(songs) :
            IF SourceOf(song).artist_name = Null
            THEN song.artist_id = Null
            ELSE \E a \in Range(artists) :
                    /\ song.artist_id = Some(a.id)
                    /\ a.name = SourceOf(song).artist_name

(* Pass E has built a song from a row without an artist_name and a song
   from a row of a promoted artist. *)
C4_Witness ==
    /\ Logged("Songs table cleaned!") /\ Staged
    /\ \E song \in Range(songs) :
          SourceOf(song).artist_name = Null /\ song.artist_id = Null
    /\ \E song \in Range(songs) :
          SourceOf(song).artist_name # Null /\ song.artist_id # Null

(* The rows the loader has to write for the first n files. *)
StagedArtists(n) == [ i \in 1..n |-> ArtistInitRow(file_paths[i]) ]

StagedSongs(n) == [ i \in 1..n |-> SongInitRow(file_paths[i]) ]

LoaderPcs == { "insert_artist", "insert_song", "initial_end" }

Interrupted == pc = "failed" /\ \E at \in LoaderPcs : raised = Some(at)

(* C5 as stated: wherever the loader is interrupted, both staging tables
   hold the rows of the same prefix of the records. *)
C5_NoRecordHalfStaged ==
    Interrupted =>
        \E n \in 0..Len(file_paths) :
            artists_init = StagedArtists(n) /\ songs_init = StagedSongs(n)

(* C5, amended: each staging table holds, in order, the rows of a prefix of
   the records; artists_init's prefix is songs_init's or one record longer
   (the two inserts of a record are committed one after the other); when
   the loader has finished both hold a row for every record. *)
C5_StagedPrefixes ==
    Staged =>
        /\ \E n \in 0..Len(file_paths) : artists_init = StagedArtists(n)
        /\ \E n \in 0..Len(file_paths) : songs_init = StagedSongs(n)
        /\ Len(artists_init) - Len(songs_init) \in { 0, 1 }
        /\ Logged("Initial ETL pipeline successfully run!") =>
              /\ Len(artists_init) = Len(file_paths)
              /\ Len(songs_init) = Len(file_paths)

(* The loader is interrupted between the two inserts of the second record. *)
C5_Witness ==
    /\ Interrupted
    /\ Len(artists_init) = 2 /\ Len(songs_init) = 1

(* The artist_id Pass D pairs with a staged artist_name. *)
Resolved(name) ==
    IF \E a \in Range(artists) : a.name = name
    THEN Some((CHOOSE a \in Range(artists) : a.name = name).id)
    ELSE Null

ObservedAlbums ==
    { <<songs_init[i].album_name, Resolved(songs_init[i].artist_name)>> :
        i \in DOMAIN songs_init }

(* C6: after Pass D there is exactly one albums row for every (album_name,
   resolved artist_id) pair of songs_init, and none for any other pair, NULL
   titles and NULL artist_ids included. *)
C6_AlbumsDistinct ==
    (Logged("Album table cleaned!") /\ Staged) =>
        /\ \A pair \in ObservedAlbums :
              Cardinality({ i \in DOMAIN albums :
                              <<albums[i].title, albums[i].artist_id>> = pair }) = 1
        /\ \A al \in Range(albums) : <<al.title, al.artist_id>> \in ObservedAlbums

(* Two staging rows of one album without a title give one row. *)
C6_Witness ==
    /\ Logged("Album table cleaned!") /\ Staged
    /\ Len(songs_init) = 2 /\ Len(albums) = 1
    /\ albums[1].title = Null /\ albums[1].artist_id # Null

(* The pass (1 the loader, 2 to 6 Passes A to E, 7 Teardown) a statement
   belongs to, and the message each pass logs when it has finished. *)
PassOf(at) ==
    CASE at \in { "initial", "insert_artist", "insert_song" }      -> 1
      [] at = "artist"                                             -> 2
      [] at \in { "location", "location_loop" }                    -> 3
      [] at \in { "artist_location", "artist_location_loop" }      -> 4
      [] at = "album"                                              -> 5
      [] at = "song"                                               -> 6
      [] at = "drop_loop"                                          -> 7
      [] OTHER                                                     -> 0

DoneMessage ==
    <<"Initial ETL pipeline successfully run!", "Artists table cleaned!",
      "Locations table cleaned!", "Mapping table finished!", "Album table cleaned!",
      "Songs table cleaned!", "Initial tables dropped.">>

(* The table each of Passes A to E fills. *)
FilledBy(k) ==
    CASE k = 2 -> artists
      [] k = 3 -> locations
      [] k = 4 -> artists_locations
      [] k = 5 -> albums
      [] k = 6 -> songs
      [] OTHER -> <<>>

(* The run stopped in the loader or in one of Passes A to E. *)
StoppedAt(k) == pc = "failed" /\ \E at \in StatementPcs : raised = Some(at) /\ PassOf(at) = k

(* No pass after pass k has run, and Teardown has not. *)
NothingAfter(k) ==
    /\ \A j \in (k + 1)..6 : FilledBy(j) = <<>>
    /\ \A j \in k..7 : ~Logged(DoneMessage[j])
    /\ Staged

(* C7: a statement of the loader or of Passes A to E that fails ends the
   run there: the failing step changes no table, no step follows it, no
   later pass has run and the staging tables still exist. *)
C7_FailFastNoRollback ==
    [][ /\ pc # "failed"
        /\ pc' = "failed" => (tables' = tables /\ existing' = existing)
        /\ \A k \in 1..6 : StoppedAt(k)' => NothingAfter(k)' ]_vars

(* The run failed inside Pass B after it had committed rows of Pass A and
   of Pass B. *)
C7_Witness ==
    /\ StoppedAt(3)
    /\ artists # <<>> /\ locations # <<>> /\ todo # {}

FinalTables == { "artists", "locations", "artists_locations", "albums", "songs" }

TeardownPcs == { "drop", "drop_loop", "done" }

(* C8: Teardown starts only when Pass E has finished; its steps leave the
   final tables and their rows as they are; when it has finished no table
   with "init" in its name exists and every final table does. *)
C8_TeardownDropsOnlyStaging ==
    /\ [](pc \in TeardownPcs =>
             /\ Logged("Songs table cleaned!")
             /\ Len(songs) = Len(file_paths))
    /\ [](pc = "done" =>
             /\ Logged("Initial tables dropped.")
             /\ existing = FinalTables
             /\ artists_init = <<>> /\ songs_init = <<>>)
    /\ [][(pc \in TeardownPcs) => (final' = final /\ FinalTables \subseteq existing')]_vars

(* Teardown has finished on a store whose final tables hold rows. *)
C8_Witness ==
    /\ pc = "done"
    /\ artists # <<>> /\ locations # <<>> /\ albums # <<>> /\ Len(songs) = 2

(* C9: started without the container, main.py logs the error and makes no
   engine; started with it, main.py ends with the engine disposed, the
   schema present, and after a pipeline that ran from the loader to
   Teardown or failed. *)
C9_EntryPoint ==
    (entry = "main" /\ pc \in { "failed", "exited" }) =>
        IF "sparkify" \in containers
        THEN /\ engine = "disposed"
             /\ Logged("Initial tables dropped.") \/ \E at \in StatementPcs : raised = Some(at)
        ELSE /\ Logged("No Postgres container running.")
             /\ engine = "none"
             /\ raised = Null

(* The albums row Pass E has to find for a staging row: titled as the
   row's album_name and of the artist named as the row's artist_name. *)
MatchingAlbums(s) ==
    { al \in Range(albums) :
        /\ s.album_name # Null /\ al.title = s.album_name
        /\ s.artist_name # Null
        /\ \E a \in Range(artists) : al.artist_id = Some(a.id) /\ a.name = s.artist_name }

(* C10: after Pass E every songs_init row has exactly one song; the song's
   album_id is the id of the albums row of its title and artist, and NULL
   when there is none, as for every row without an album_name or without
   an artist_name. *)
C10_SongPerRowAlbumByNames ==
    (Logged("Songs table cleaned!") /\ Staged) =>
        /\ Len(songs) = Len(songs_init)
        /\ \A i \in DOMAIN songs_init :
              Cardinality({ j \in DOMAIN songs : songs[j].src_row = i }) = 1
        /\ \A song \in Range(songs) :
              LET s == SourceOf(song)
              IN  /\ song.title = s.title /\ song.bpm = s.bpm /\ song.year = s.year
                  /\ IF MatchingAlbums(s) = {}
                     THEN song.album_id = Null
                     ELSE \E al \in MatchingAlbums(s) : song.album_id = Some(al.id)
                  /\ (s.album_name = Null \/ s.artist_name = Null) => song.album_id = Null

(* Pass E has linked one song to its album and left a song without an
   album_name unlinked, although Pass D made an albums row for its pair. *)
C10_Witness ==
    /\ Logged("Songs table cleaned!") /\ Staged
    /\ \E song \in Range(songs) : song.album_id # Null
    /\ \E song \in Range(songs) :
          /\ SourceOf(song).album_name = Null
          /\ song.album_id = Null
          /\ \E al \in Range(albums) :
                al.title = Null /\ al.artist_id = Resolved(SourceOf(song).artist_name)
=============================================================================
